---- MODULE Spec2Model ----
(***************************************************************************)
(* Model of chatbot/AdvancedAppina.py: the Streamlit chat session          *)
(* (ChatApp), the schema description cache (SchemaDescriber), the          *)
(* classifier / verifier / non-serious responder and the SQL generation    *)
(* and answering pipeline (SQLAssistant).                                  *)
(*                                                                         *)
(* A text is a sequence of tokens.  LLM completions that the code          *)
(* normalises (strip, lower) are spelled character by character; fixed     *)
(* messages and opaque payloads are one token.                             *)
(***************************************************************************)
EXTENDS Integers, Sequences, FiniteSets, TLC

(* ------------------------------ bounds --------------------------------- *)
\* number of user messages submitted in the session
MaxTurns == 2
\* number of distinct database handles a connect action can return
NumHandles == 2

(* --------------------------- text primitives --------------------------- *)
\* characters removed by Python's str.strip()
Whitespace == {" ", "\n", "\t"}

UpperCase == <<"A","B","C","D","E","F","G","H","I","J","K","L","M",
               "N","O","P","Q","R","S","T","U","V","W","X","Y","Z">>
LowerCase == <<"a","b","c","d","e","f","g","h","i","j","k","l","m",
               "n","o","p","q","r","s","t","u","v","w","x","y","z">>

LowerChar(c) ==
    IF \E i \in DOMAIN UpperCase : UpperCase[i] = c
    THEN LowerCase[CHOOSE i \in DOMAIN UpperCase : UpperCase[i] = c]
    ELSE c

\* str.lower()
Lower(s) == [i \in DOMAIN s |-> LowerChar(s[i])]

RECURSIVE LStrip(_)
LStrip(s) ==
    IF s # <<>> /\ Head(s) \in Whitespace THEN LStrip(Tail(s)) ELSE s

RECURSIVE RStrip(_)
RStrip(s) ==
    IF s # <<>> /\ s[Len(s)] \in Whitespace
    THEN RStrip(SubSeq(s, 1, Len(s) - 1)) ELSE s

\* str.strip()
Strip(s) == RStrip(LStrip(s))

\* a normalisation that forgets trailing whitespace: lstrip().lower()
NormalizeLeft(s) == Lower(LStrip(s))

\* response.content.strip().lower() of the classifier and of the verifier
Normalize(s) == Lower(Strip(s))

(* ---------------------------- fixed texts ------------------------------ *)
Serious == <<"s","e","r","i","o","u","s">>
Related == <<"r","e","l","a","t","e","d">>

Greeting == <<"Hello! I'm SQL assistant. Ask me anything about your database.">>

RejectionText ==
    <<"Thank you for your question! It doesn't seem to be related to the database. Feel free to ask anything related to the database, such as queries about employees, products, sales, or other business data, and I'll be happy to assist you!">>

ErrorMessage ==
    <<"An error occurred while processing your request. This could be due to hitting the API limit or other issues. Please try again later.">>

\* str() of the local function object get_schema of generate_response
GetSchemaRepr == <<"<function SQLAssistant.generate_response.<locals>.get_schema>">>

SeparatorWidth == 80
\* "\n" + "-" * 80 + "\n"
Separator == <<"\n">> \o [i \in 1..SeparatorWidth |-> "-"] \o <<"\n">>

(* ------------------- inputs and external completions ------------------- *)
Queries == {<<"q1">>, <<"q2">>}

\* completions of the classifier LLM, before normalisation
ClassifierOutputs ==
    { <<"S","e","r","i","o","u","s">>,
      <<" ","s","e","r","i","o","u","s","\n">>,
      <<"N","o","n","-","S","e","r","i","o","u","s">>,
      <<"S","e","r","i","o","u","s",".">>,
      <<>> }

\* completions of the verifier LLM, before normalisation
VerifierOutputs ==
    { <<"R","e","l","a","t","e","d">>,
      <<"\n","r","e","l","a","t","e","d"," ">>,
      <<"N","o","t"," ","r","e","l","a","t","e","d">>,
      <<"R","e","l","a","t","e","d",".">>,
      <<>> }

\* completions of the non-serious responder LLM
ResponderOutputs == { <<"joke">>, <<" ","hi","\n">> }

\* completions of the schema describer LLM
DescriberOutputs == { <<"d1">>, <<" ","d2","\n">>, <<"\n">> }

\* db.get_table_info(): the raw schema can differ from call to call
RawSchemas == { <<"schemaA">>, <<"schemaB">> }

\* completions of the SQL generation LLM
SqlOutputs == { <<"SELECT 1">>, <<"SELEKT">> }

\* db.run(sql) results
SqlResults == { <<"rows">> }

\* completions of the summarisation LLM
SummaryOutputs == { <<"answer">> }

Handles == 1..NumHandles
\* st.session_state.db = None
None == 0

HumanMessage(c) == [role |-> "Human", content |-> c]
AIMessage(c) == [role |-> "AI", content |-> c]

(* ------------------------------- state --------------------------------- *)
VARIABLES
    chat_history,          \* st.session_state.chat_history
    db,                    \* st.session_state.db
    store,                 \* content of schema_descriptions.txt ("" when absent)
    pc,                    \* position of handle_user_query
    user_query,            \* locals of handle_user_query
    classifier_text, classification,
    schema_info, descriptions,
    verifier_text, relevance,
    response,
    history_arg,           \* chat_history argument of generate_response
    sql_schema,            \* {schema} of the SQL generation prompt
    query,                 \* output of sql_chain
    sql_result,            \* db.run(query)
    summary_schema,        \* {schema} of the summarisation prompt
    run_query,             \* the SQL text db.run was called with
    summary_query,         \* {query} of the summarisation prompt
    summary_response,      \* {response} of the summarisation prompt
    caller,                \* which SchemaDescriber runs describe_and_save_all
    database_schema, existing_descriptions, description,
    calls,                 \* operations invoked so far in the current turn
    turns,                 \* user messages submitted so far
    outcome,               \* how the last turn ended
    raised,                \* the operation that raised in the current turn
    connect_status,        \* what the sidebar showed for the last connect
    n_generate,            \* generate_description invocations
    n_stale_generate,      \* ... of which the store had content
    n_save,                \* save_descriptions invocations
    later_inputs,          \* inputs of describe calls made after the first write
    later_returns          \* outputs of those calls

turnLocals == <<user_query, classifier_text, classification, schema_info,
                descriptions, verifier_text, relevance, response>>
promptLocals == <<run_query, summary_query, summary_response>>
pipeLocals == <<history_arg, sql_schema, query, sql_result, summary_schema,
                promptLocals>>
descLocals == <<caller, database_schema, existing_descriptions, description>>
turnGhosts == <<calls, turns, outcome, raised>>
cacheGhosts == <<n_generate, n_stale_generate, n_save, later_inputs, later_returns>>

vars == <<chat_history, db, store, pc, turnLocals, pipeLocals, descLocals,
          turnGhosts, connect_status, cacheGhosts>>

\* ChatApp.init_session_state, first run of the script
Init ==
    /\ chat_history = <<AIMessage(Greeting)>>
    /\ db = None
    /\ store = <<>>
    /\ pc = "idle"
    /\ user_query = <<>> /\ classifier_text = <<>> /\ classification = <<>>
    /\ schema_info = <<>> /\ descriptions = <<>>
    /\ verifier_text = <<>> /\ relevance = <<>> /\ response = <<>>
    /\ history_arg = <<>> /\ sql_schema = <<>> /\ query = <<>>
    /\ sql_result = <<>> /\ summary_schema = <<>>
    /\ run_query = <<>> /\ summary_query = <<>> /\ summary_response = <<>>
    /\ caller = "none" /\ database_schema = <<>>
    /\ existing_descriptions = <<>> /\ description = <<>>
    /\ calls = <<>> /\ turns = 0 /\ outcome = "none" /\ raised = "none"
    /\ connect_status = "none"
    /\ n_generate = 0 /\ n_stale_generate = 0 /\ n_save = 0
    /\ later_inputs = {} /\ later_returns = {}

(* ------------------------------ sidebar -------------------------------- *)
\* a connect that starts the conversation over
ConnectOkResets(h) ==
    /\ pc = "idle"
    /\ db' = h
    /\ connect_status' = "success"
    /\ chat_history' = <<AIMessage(Greeting)>>
    /\ UNCHANGED <<store, pc, turnLocals, pipeLocals, descLocals,
                   turnGhosts, cacheGhosts>>

\* Connect button, DatabaseConnector.connect returns a handle
ConnectOk(h) ==
    /\ pc = "idle"
    /\ db' = h
    /\ connect_status' = "success"
    /\ UNCHANGED <<chat_history, store, pc, turnLocals, pipeLocals, descLocals,
                   turnGhosts, cacheGhosts>>

\* a failed connect that also drops the handle of the session
ConnectFailClears ==
    /\ pc = "idle"
    /\ db' = None
    /\ connect_status' = "error"
    /\ UNCHANGED <<chat_history, store, pc, turnLocals, pipeLocals, descLocals,
                   turnGhosts, cacheGhosts>>

\* Connect button, DatabaseConnector.connect raises: the assignment to
\* st.session_state.db is skipped and st.error shows the failure
ConnectFail ==
    /\ pc = "idle"
    /\ connect_status' = "error"
    /\ UNCHANGED <<chat_history, db, store, pc, turnLocals, pipeLocals,
                   descLocals, turnGhosts, cacheGhosts>>

(* ------------------------- handle_user_query --------------------------- *)
\* the other end of the log: chat_history[:2]
FirstTwo(h) == SubSeq(h, 1, IF Len(h) > 2 THEN 2 ELSE Len(h))

\* chat_history[-2:]
LastTwo(h) == SubSeq(h, IF Len(h) > 2 THEN Len(h) - 1 ELSE 1, Len(h))

\* a routing test that accepts any text beginning with "serious"
IsSeriousPrefix(c) ==
    Len(c) >= Len(Serious) /\ SubSeq(c, 1, Len(Serious)) = Serious

\* classification == "serious"
IsSerious(c) == c = Serious

\* a routing test that accepts any text containing "related"
IsRelatedSubstring(r) ==
    \E i \in 1..Len(r) :
        i + Len(Related) - 1 <= Len(r) /\ SubSeq(r, i, i + Len(Related) - 1) = Related

\* relevance == "related"
IsRelated(r) == r = Related

\* an exception that nothing in handle_user_query catches: the script run
\* ends, the session state stays as it is
Propagate(op) ==
    /\ calls' = Append(calls, op)
    /\ raised' = op
    /\ outcome' = "uncaught"
    /\ pc' = "idle"
    /\ UNCHANGED <<chat_history, response>>

\* except Exception of generate_response, then the append of line 401
PipelineCaught(op) ==
    /\ calls' = calls \o <<op, "st.error">>
    /\ raised' = op
    /\ response' = ErrorMessage
    /\ chat_history' = Append(chat_history, AIMessage(ErrorMessage))
    /\ outcome' = "answered"
    /\ pc' = "idle"

\* a submit that classifies the question whether or not a db handle is set
SubmitUnguarded(q) ==
    /\ pc = "idle"
    /\ turns < MaxTurns
    /\ chat_history' = Append(chat_history, HumanMessage(q))
    /\ user_query' = q
    /\ classifier_text' = <<>> /\ classification' = <<>>
    /\ schema_info' = <<>> /\ descriptions' = <<>>
    /\ verifier_text' = <<>> /\ relevance' = <<>> /\ response' = <<>>
    /\ history_arg' = <<>> /\ sql_schema' = <<>> /\ query' = <<>>
    /\ sql_result' = <<>> /\ summary_schema' = <<>>
    /\ run_query' = <<>> /\ summary_query' = <<>> /\ summary_response' = <<>>
    /\ caller' = "none" /\ database_schema' = <<>>
    /\ existing_descriptions' = <<>> /\ description' = <<>>
    /\ calls' = <<>>
    /\ raised' = "none"
    /\ turns' = turns + 1
    /\ pc' = "classify" /\ outcome' = "none"
    /\ UNCHANGED <<db, store, connect_status, cacheGhosts>>

\* a user message is submitted: the Human message is appended, and the
\* handler goes on only if the session has a db handle
Submit(q) ==
    /\ pc = "idle"
    /\ turns < MaxTurns
    /\ chat_history' = Append(chat_history, HumanMessage(q))
    /\ user_query' = q
    /\ classifier_text' = <<>> /\ classification' = <<>>
    /\ schema_info' = <<>> /\ descriptions' = <<>>
    /\ verifier_text' = <<>> /\ relevance' = <<>> /\ response' = <<>>
    /\ history_arg' = <<>> /\ sql_schema' = <<>> /\ query' = <<>>
    /\ sql_result' = <<>> /\ summary_schema' = <<>>
    /\ run_query' = <<>> /\ summary_query' = <<>> /\ summary_response' = <<>>
    /\ caller' = "none" /\ database_schema' = <<>>
    /\ existing_descriptions' = <<>> /\ description' = <<>>
    /\ calls' = <<>>
    /\ raised' = "none"
    /\ turns' = turns + 1
    /\ IF db # None
       THEN pc' = "classify" /\ outcome' = "none"
       ELSE pc' = "idle" /\ outcome' = "no_db"
    /\ UNCHANGED <<db, store, connect_status, cacheGhosts>>

\* question_classifier.classify_question returns
ClassifyReturn(t) ==
    /\ pc = "classify"
    /\ classifier_text' = t
    /\ classification' = Normalize(t)
    /\ calls' = Append(calls, "classify_question")
    /\ pc' = IF IsSerious(classification') THEN "app_table_info" ELSE "non_serious"
    /\ UNCHANGED <<chat_history, db, store, user_query, schema_info, descriptions,
                   verifier_text, relevance, response, pipeLocals, descLocals,
                   turns, outcome, raised, connect_status, cacheGhosts>>

\* the classifier LLM call raises
ClassifyRaise ==
    /\ pc = "classify"
    /\ Propagate("classify_question")
    /\ UNCHANGED <<db, store, user_query, classifier_text, classification,
                   schema_info, descriptions, verifier_text, relevance,
                   pipeLocals, descLocals, turns, connect_status, cacheGhosts>>

\* non_serious_assistant.get_non_serious_response returns
NonSeriousReturn(t) ==
    /\ pc = "non_serious"
    /\ response' = Strip(t)
    /\ chat_history' = Append(chat_history, AIMessage(response'))
    /\ calls' = Append(calls, "get_non_serious_response")
    /\ outcome' = "answered"
    /\ pc' = "idle"
    /\ UNCHANGED <<db, store, user_query, classifier_text, classification,
                   schema_info, descriptions, verifier_text, relevance,
                   pipeLocals, descLocals, turns, raised, connect_status,
                   cacheGhosts>>

\* the non-serious responder LLM call raises
NonSeriousRaise ==
    /\ pc = "non_serious"
    /\ Propagate("get_non_serious_response")
    /\ UNCHANGED <<db, store, user_query, classifier_text, classification,
                   schema_info, descriptions, verifier_text, relevance,
                   pipeLocals, descLocals, turns, connect_status, cacheGhosts>>

\* st.session_state.db.get_table_info() returns, and
\* self.describer.describe_and_save_all(schema_info) is entered
AppGetTableInfo(s) ==
    /\ pc = "app_table_info"
    /\ schema_info' = s
    /\ caller' = "app"
    /\ database_schema' = s
    /\ existing_descriptions' = <<>> /\ description' = <<>>
    /\ calls' = Append(calls, "app.get_table_info")
    /\ pc' = "desc_load"
    /\ UNCHANGED <<chat_history, db, store, user_query, classifier_text,
                   classification, descriptions, verifier_text, relevance,
                   response, pipeLocals, turns, outcome, raised,
                   connect_status, cacheGhosts>>

\* st.session_state.db.get_table_info() raises
AppGetTableInfoRaise ==
    /\ pc = "app_table_info"
    /\ Propagate("app.get_table_info")
    /\ UNCHANGED <<db, store, user_query, classifier_text, classification,
                   schema_info, descriptions, verifier_text, relevance,
                   pipeLocals, descLocals, turns, connect_status, cacheGhosts>>

(* --------------------------- SchemaDescriber --------------------------- *)
\* a load that finds nothing, as when the file is looked up elsewhere
LoadNothing(file) == <<>>

\* load_existing_descriptions: the file content, "" when there is no file
LoadExistingDescriptions(file) == file

\* a cache test that never takes the stored description
NeverCached(existing) == FALSE

\* if existing_descriptions:
HasContent(existing) == existing # <<>>

\* generate_description: response.content.strip()
GenerateDescription(content) == Strip(content)

\* save_descriptions: append the description and the separator line
SaveDescriptions(file, d) == file \o d \o Separator

DescribeOp == IF caller = "app" THEN "app.describe_and_save_all"
                                ELSE "sql.describe_and_save_all"
GenerateOp == IF caller = "app" THEN "app.generate_description"
                                ELSE "sql.generate_description"

\* return of describe_and_save_all to the call site of the caller
DescribeReturn(value) ==
    IF caller = "app"
    THEN descriptions' = value /\ pc' = "verify" /\ UNCHANGED sql_schema
    ELSE sql_schema' = value /\ pc' = "sql_llm" /\ UNCHANGED descriptions

\* describe_and_save_all, lines 94-97: load, and return what exists
DescribeLoad ==
    /\ pc = "desc_load"
    /\ existing_descriptions' = LoadExistingDescriptions(store)
    /\ calls' = Append(calls, DescribeOp)
    /\ later_inputs' = IF n_save > 0 THEN later_inputs \cup {database_schema}
                                     ELSE later_inputs
    /\ IF HasContent(existing_descriptions')
       THEN /\ DescribeReturn(existing_descriptions')
            /\ later_returns' = IF n_save > 0
                                THEN later_returns \cup {existing_descriptions'}
                                ELSE later_returns
       ELSE /\ pc' = "desc_generate"
            /\ UNCHANGED <<descriptions, sql_schema, later_returns>>
    /\ UNCHANGED <<chat_history, db, store, user_query, classifier_text,
                   classification, schema_info, verifier_text, relevance,
                   response, history_arg, query, sql_result, summary_schema,
                   promptLocals,
                   caller, database_schema, description, turns, outcome, raised,
                   connect_status, n_generate, n_stale_generate, n_save>>

\* describe_and_save_all, line 101: generate_description returns
DescribeGenerateReturn(t) ==
    /\ pc = "desc_generate"
    /\ description' = GenerateDescription(t)
    /\ calls' = Append(calls, GenerateOp)
    /\ n_generate' = n_generate + 1
    /\ n_stale_generate' = IF store # <<>> THEN n_stale_generate + 1
                                          ELSE n_stale_generate
    /\ pc' = "desc_save"
    /\ UNCHANGED <<chat_history, db, store, turnLocals, pipeLocals, caller,
                   database_schema, existing_descriptions, turns, outcome,
                   raised, connect_status, n_save, later_inputs, later_returns>>

\* a failed generation that still writes a (blank) entry to the store
DescribeGenerateRaiseSaves ==
    /\ pc = "desc_generate"
    /\ n_generate' = n_generate + 1
    /\ n_stale_generate' = IF store # <<>> THEN n_stale_generate + 1
                                          ELSE n_stale_generate
    /\ store' = SaveDescriptions(store, <<>>)
    /\ n_save' = n_save + 1
    /\ IF caller = "app" THEN Propagate(GenerateOp) ELSE PipelineCaught(GenerateOp)
    /\ UNCHANGED <<db, user_query, classifier_text, classification,
                   schema_info, descriptions, verifier_text, relevance,
                   pipeLocals, descLocals, turns, connect_status,
                   later_inputs, later_returns>>

\* describe_and_save_all, line 101: the LLM call raises; the orchestrator
\* does not catch it, generate_response does
DescribeGenerateRaise ==
    /\ pc = "desc_generate"
    /\ n_generate' = n_generate + 1
    /\ n_stale_generate' = IF store # <<>> THEN n_stale_generate + 1
                                          ELSE n_stale_generate
    /\ IF caller = "app" THEN Propagate(GenerateOp) ELSE PipelineCaught(GenerateOp)
    /\ UNCHANGED <<db, store, user_query, classifier_text, classification,
                   schema_info, descriptions, verifier_text, relevance,
                   pipeLocals, descLocals, turns, connect_status, n_save,
                   later_inputs, later_returns>>

\* describe_and_save_all, lines 104-105: save, and return the description
DescribeSave ==
    /\ pc = "desc_save"
    /\ store' = SaveDescriptions(store, description)
    /\ n_save' = n_save + 1
    /\ later_returns' = IF n_save > 0 THEN later_returns \cup {description}
                                      ELSE later_returns
    /\ DescribeReturn(description)
    /\ UNCHANGED <<chat_history, db, user_query, classifier_text, classification,
                   schema_info, verifier_text, relevance, response, history_arg,
                   query, sql_result, summary_schema, promptLocals, descLocals,
                   turnGhosts,
                   connect_status, n_generate, n_stale_generate, later_inputs>>

(* ---------------------- verification and routing ----------------------- *)
\* schema_verifier.verify_schema_relevance returns; a related question
\* enters generate_response, any other gets the fixed rejection
VerifyReturn(t) ==
    /\ pc = "verify"
    /\ verifier_text' = t
    /\ relevance' = Normalize(t)
    /\ IF IsRelated(relevance')
       THEN /\ history_arg' = LastTwo(chat_history)
            /\ calls' = calls \o <<"verify_schema_relevance", "generate_response">>
            /\ pc' = "sql_table_info"
            /\ UNCHANGED <<chat_history, response, outcome>>
       ELSE /\ response' = RejectionText
            /\ chat_history' = Append(chat_history, AIMessage(RejectionText))
            /\ calls' = Append(calls, "verify_schema_relevance")
            /\ outcome' = "answered"
            /\ pc' = "idle"
            /\ UNCHANGED history_arg
    /\ UNCHANGED <<db, store, user_query, classifier_text, classification,
                   schema_info, descriptions, sql_schema, query, sql_result,
                   summary_schema, promptLocals, descLocals, turns, raised,
                   connect_status, cacheGhosts>>

\* a verifier failure that is answered with the generic failure text
VerifyRaiseCaught ==
    /\ pc = "verify"
    /\ PipelineCaught("verify_schema_relevance")
    /\ UNCHANGED <<db, store, user_query, classifier_text, classification,
                   schema_info, descriptions, verifier_text, relevance,
                   pipeLocals, descLocals, turns, connect_status, cacheGhosts>>

\* the verifier LLM call raises
VerifyRaise ==
    /\ pc = "verify"
    /\ Propagate("verify_schema_relevance")
    /\ UNCHANGED <<db, store, user_query, classifier_text, classification,
                   schema_info, descriptions, verifier_text, relevance,
                   pipeLocals, descLocals, turns, connect_status, cacheGhosts>>

(* ------------------- SQLAssistant.generate_response -------------------- *)
\* schema=lambda _: get_schema (line 288): the value of the key is the
\* function get_schema itself, never called; the prompt formats it with str()
SummarySchema == GetSchemaRepr

\* vars["query"], the argument of db.run (line 289)
RunArgument(q) == q

\* get_schema of get_sql_chain: db.get_table_info() returns, and
\* self.describer.describe_and_save_all(schema_info) is entered
SqlGetTableInfo(s) ==
    /\ pc = "sql_table_info"
    /\ caller' = "sql"
    /\ database_schema' = s
    /\ existing_descriptions' = <<>> /\ description' = <<>>
    /\ calls' = Append(calls, "sql.get_table_info")
    /\ pc' = "desc_load"
    /\ UNCHANGED <<chat_history, db, store, turnLocals, pipeLocals, turns,
                   outcome, raised, connect_status, cacheGhosts>>

\* get_schema of get_sql_chain: db.get_table_info() raises
SqlGetTableInfoRaise ==
    /\ pc = "sql_table_info"
    /\ PipelineCaught("sql.get_table_info")
    /\ UNCHANGED <<db, store, user_query, classifier_text, classification,
                   schema_info, descriptions, verifier_text, relevance,
                   pipeLocals, descLocals, turns, connect_status, cacheGhosts>>

\* prompt | llm_1 | StrOutputParser() of get_sql_chain returns the SQL text
SqlLlmReturn(t) ==
    /\ pc = "sql_llm"
    /\ query' = t
    /\ calls' = Append(calls, "llm_sql")
    /\ pc' = "db_run"
    /\ UNCHANGED <<chat_history, db, store, turnLocals, history_arg, sql_schema,
                   sql_result, summary_schema, promptLocals, descLocals, turns,
                   outcome, raised, connect_status, cacheGhosts>>

\* a failed SQL generation that goes on to run an empty query
SqlLlmRaiseContinues ==
    /\ pc = "sql_llm"
    /\ query' = <<>>
    /\ calls' = Append(calls, "llm_sql")
    /\ raised' = "llm_sql"
    /\ pc' = "db_run"
    /\ UNCHANGED <<chat_history, db, store, turnLocals, history_arg, sql_schema,
                   sql_result, summary_schema, promptLocals, descLocals, turns,
                   outcome, connect_status, cacheGhosts>>

\* the SQL generation LLM call raises
SqlLlmRaise ==
    /\ pc = "sql_llm"
    /\ PipelineCaught("llm_sql")
    /\ UNCHANGED <<db, store, user_query, classifier_text, classification,
                   schema_info, descriptions, verifier_text, relevance,
                   pipeLocals, descLocals, turns, connect_status, cacheGhosts>>

\* .assign(schema=..., response=lambda vars: db.run(vars["query"])) returns
DbRunReturn(r) ==
    /\ pc = "db_run"
    /\ run_query' = RunArgument(query)
    /\ sql_result' = r
    /\ summary_schema' = SummarySchema
    /\ summary_query' = query
    /\ summary_response' = r
    /\ calls' = Append(calls, "db.run")
    /\ pc' = "summarize"
    /\ UNCHANGED <<chat_history, db, store, turnLocals, history_arg, sql_schema,
                   query, descLocals, turns, outcome, raised, connect_status,
                   cacheGhosts>>

\* a database error that leaves generate_response
DbRunRaiseUncaught ==
    /\ pc = "db_run"
    /\ Propagate("db.run")
    /\ UNCHANGED <<db, store, user_query, classifier_text, classification,
                   schema_info, descriptions, verifier_text, relevance,
                   pipeLocals, descLocals, turns, connect_status, cacheGhosts>>

\* db.run raises
DbRunRaise ==
    /\ pc = "db_run"
    /\ run_query' = RunArgument(query)
    /\ PipelineCaught("db.run")
    /\ UNCHANGED <<db, store, user_query, classifier_text, classification,
                   schema_info, descriptions, verifier_text, relevance,
                   history_arg, sql_schema, query, sql_result, summary_schema,
                   summary_query, summary_response, descLocals, turns,
                   connect_status, cacheGhosts>>

\* prompt | llm | StrOutputParser() returns the answer; lines 400-401
SummarizeReturn(t) ==
    /\ pc = "summarize"
    /\ response' = t
    /\ chat_history' = Append(chat_history, AIMessage(t))
    /\ calls' = Append(calls, "llm_summarize")
    /\ outcome' = "answered"
    /\ pc' = "idle"
    /\ UNCHANGED <<db, store, user_query, classifier_text, classification,
                   schema_info, descriptions, verifier_text, relevance,
                   pipeLocals, descLocals, turns, raised, connect_status,
                   cacheGhosts>>

\* the summarisation LLM call raises
SummarizeRaise ==
    /\ pc = "summarize"
    /\ PipelineCaught("llm_summarize")
    /\ UNCHANGED <<db, store, user_query, classifier_text, classification,
                   schema_info, descriptions, verifier_text, relevance,
                   pipeLocals, descLocals, turns, connect_status, cacheGhosts>>

(* --------------------------- specification ----------------------------- *)
Next ==
    \/ \E h \in Handles : ConnectOk(h)
    \/ ConnectFail
    \/ \E q \in Queries : Submit(q)
    \/ \E t \in ClassifierOutputs : ClassifyReturn(t)
    \/ ClassifyRaise
    \/ \E t \in ResponderOutputs : NonSeriousReturn(t)
    \/ NonSeriousRaise
    \/ \E s \in RawSchemas : AppGetTableInfo(s)
    \/ AppGetTableInfoRaise
    \/ DescribeLoad
    \/ \E t \in DescriberOutputs : DescribeGenerateReturn(t)
    \/ DescribeGenerateRaise
    \/ DescribeSave
    \/ \E t \in VerifierOutputs : VerifyReturn(t)
    \/ VerifyRaise
    \/ \E s \in RawSchemas : SqlGetTableInfo(s)
    \/ SqlGetTableInfoRaise
    \/ \E t \in SqlOutputs : SqlLlmReturn(t)
    \/ SqlLlmRaise
    \/ \E r \in SqlResults : DbRunReturn(r)
    \/ DbRunRaise
    \/ \E t \in SummaryOutputs : SummarizeReturn(t)
    \/ SummarizeRaise

Spec == Init /\ [][Next]_vars

(* ------------------------------ properties ----------------------------- *)
Ops == {calls[i] : i \in DOMAIN calls}
Last(h) == h[Len(h)]

\* the classifier / the verifier has returned a text in the current turn
Classified == "classify_question" \in Ops /\ raised # "classify_question"
Verified == "verify_schema_relevance" \in Ops /\ raised # "verify_schema_relevance"

\* operations of generate_response
PipelineOps == {"generate_response", "sql.get_table_info",
                "sql.describe_and_save_all", "sql.generate_description",
                "llm_sql", "db.run", "llm_summarize", "st.error"}

\* no operation is invoked twice in a turn
NoRetry == \A i, j \in DOMAIN calls : calls[i] = calls[j] => i = j

\* C1: in a turn whose classification is anything but "serious", neither the
\* verifier nor generate_response (nor any of its stages) is invoked; the
\* only component invoked after the classifier is the non-serious responder,
\* whose reply is the AI message of the turn.
C1_NonSeriousSkipsVerifierAndPipeline ==
    (Classified /\ classification # Serious) =>
        /\ Ops \subseteq {"classify_question", "get_non_serious_response"}
        /\ "verify_schema_relevance" \notin Ops
        /\ Ops \cap PipelineOps = {}
        /\ outcome = "answered" =>
              /\ calls = <<"classify_question", "get_non_serious_response">>
              /\ Last(chat_history) = AIMessage(response)

\* a near miss of "serious" was answered by the non-serious responder
C1_Witness ==
    /\ outcome = "answered"
    /\ classification = <<"s","e","r","i","o","u","s",".">>
    /\ "get_non_serious_response" \in Ops

\* C2: in a turn classified serious whose relevance is anything but
\* "related", the AI message appended is exactly the fixed rejection text
\* and no operation of generate_response is invoked.
C2_NotRelatedGetsFixedRejection ==
    (Verified /\ classification = Serious /\ relevance # Related) =>
        /\ pc = "idle" /\ outcome = "answered"
        /\ response = RejectionText
        /\ Len(chat_history) >= 3
        /\ Last(chat_history) = AIMessage(RejectionText)
        /\ chat_history[Len(chat_history) - 1] = HumanMessage(user_query)
        /\ Ops \cap PipelineOps = {}

\* "not related" was answered with the rejection
C2_Witness ==
    /\ Verified
    /\ relevance = <<"n","o","t"," ","r","e","l","a","t","e","d">>
    /\ Last(chat_history) = AIMessage(RejectionText)

\* C3: between turns the log holds 1 + 2N messages after N turns: the
\* greeting, then one Human message followed by one AI message per turn.
C3_LogHasOnePairPerTurn ==
    pc = "idle" =>
        /\ Len(chat_history) = 1 + 2 * turns
        /\ chat_history[1] = AIMessage(Greeting)
        /\ \A k \in 1..turns :
              /\ chat_history[2 * k].role = "Human"
              /\ chat_history[2 * k + 1].role = "AI"

\* C4: every describe_and_save_all call made after the first write returns
\* the content of the store, so any two of them return the same text,
\* whatever their inputs; none of them invokes the LLM or writes the store.
C4_LaterDescribeCallsReturnStore ==
    /\ \A v \in later_returns : v = store
    /\ Cardinality(later_returns) <= 1
    /\ n_stale_generate = 0
    /\ n_save <= 1

\* two later calls with different raw schemas have returned
C4_Witness ==
    /\ Cardinality(later_inputs) = 2
    /\ later_returns = {store}
    /\ pc = "idle"

\* C5: the store holds at most one description: save_descriptions runs at
\* most once over all turns and both describers, the store is empty or one
\* stripped description followed by one separator, and generate_description
\* is never invoked while the store has content.
C5_AtMostOneDescriptionPersisted ==
    /\ n_save <= 1
    /\ n_stale_generate = 0
    /\ (n_save = 0) <=> (store = <<>>)
    /\ \/ store = <<>>
       \/ \E t \in DescriberOutputs : store = Strip(t) \o Separator

\* the orchestrator's describer wrote the store from one raw schema, and
\* the SQLAssistant's describer, given another, returned the stored text
C5_Witness ==
    /\ pc = "sql_llm"
    /\ "app.generate_description" \in Ops
    /\ caller = "sql"
    /\ database_schema # schema_info
    /\ n_save = 1
    /\ sql_schema = store

\* operations inside the try of generate_response
PipelineStages == {"sql.get_table_info", "sql.generate_description",
                   "llm_sql", "db.run", "llm_summarize"}

\* C6: when a stage of generate_response raises, the turn still ends
\* answered: the fixed generic failure text is the response and the AI
\* message appended after the Human message, and no operation ran twice.
C6_PipelineFailureIsCaught ==
    raised \in PipelineStages =>
        /\ pc = "idle" /\ outcome = "answered"
        /\ response = ErrorMessage
        /\ Len(chat_history) >= 3
        /\ Last(chat_history) = AIMessage(ErrorMessage)
        /\ chat_history[Len(chat_history) - 1] = HumanMessage(user_query)
        /\ Last(calls) = "st.error"
        /\ NoRetry

\* db.run raised on the generated SQL
C6_Witness ==
    /\ raised = "db.run"
    /\ query \in SqlOutputs
    /\ Last(chat_history) = AIMessage(ErrorMessage)

\* C7 as stated: after a failed connect the session has no db handle.
C7_FailedConnectLeavesHandleUnset ==
    connect_status = "error" => db = None

\* C7 as amended: a step outside any turn that ends with the failure shown
\* (a failed connect) leaves the db handle and the log as they were, and the
\* session goes on accepting actions.
C7_FailedConnectKeepsHandle ==
    [][(pc = "idle" /\ turns' = turns /\ connect_status' = "error") =>
          (db' = db /\ chat_history' = chat_history /\ pc' = "idle")]_vars

\* a connect failed in a session that already had a handle
C7_Witness ==
    /\ connect_status = "error"
    /\ db \in Handles

\* completions that strip() and lower() turn into "serious" / "related"
SeriousCompletions ==
    { <<"S","e","r","i","o","u","s">>, <<" ","s","e","r","i","o","u","s","\n">> }
RelatedCompletions ==
    { <<"R","e","l","a","t","e","d">>, <<"\n","r","e","l","a","t","e","d"," ">> }

\* the branch handle_user_query took after the classifier returned
SeriousBranch == pc = "app_table_info" \/ "app.get_table_info" \in Ops
NonSeriousBranch == pc = "non_serious" \/ "get_non_serious_response" \in Ops

\* C8: the serious branch (which leads to the verifier) is taken exactly for
\* the classifier completions that are "serious" up to surrounding whitespace
\* and letter case, every other completion takes the non-serious branch;
\* generate_response is entered exactly when in addition the verifier
\* completion is "related" up to whitespace and case, and every other verifier
\* completion ends the turn with the fixed rejection.
C8_RoutingByExactNormalizedMatch ==
    /\ Classified =>
          /\ SeriousBranch <=> classifier_text \in SeriousCompletions
          /\ NonSeriousBranch <=> classifier_text \notin SeriousCompletions
    /\ "verify_schema_relevance" \in Ops => classifier_text \in SeriousCompletions
    /\ Verified =>
          /\ "generate_response" \in Ops <=> verifier_text \in RelatedCompletions
          /\ verifier_text \notin RelatedCompletions =>
                (pc = "idle" /\ Last(chat_history) = AIMessage(RejectionText))
    /\ ~Verified => "generate_response" \notin Ops

\* a padded lower-case "serious" and a padded "related" reached the pipeline
C8_Witness ==
    /\ classifier_text = <<" ","s","e","r","i","o","u","s","\n">>
    /\ verifier_text = <<"\n","r","e","l","a","t","e","d"," ">>
    /\ "generate_response" \in Ops

\* operations of a turn that run outside any try
UncaughtStages == {"classify_question", "verify_schema_relevance",
                   "get_non_serious_response", "app.generate_description"}

\* C9: when the classifier, the verifier, the non-serious responder or the
\* orchestrator's describe_and_save_all raises, the turn ends uncaught: the
\* Human message of the turn is the last entry of the log, there is no
\* response and no generic failure text, and no operation ran twice.
C9_OrchestratorDoesNotCatch ==
    raised \in UncaughtStages =>
        /\ pc = "idle" /\ outcome = "uncaught"
        /\ Last(chat_history) = HumanMessage(user_query)
        /\ response = <<>>
        /\ "st.error" \notin Ops
        /\ Last(calls) = raised
        /\ NoRetry

\* the verifier raised after the description had been obtained
C9_Witness ==
    /\ raised = "verify_schema_relevance"
    /\ outcome = "uncaught"
    /\ descriptions = store

\* C10: once the summarisation prompt is built, its schema value is the
\* schema description that the SQL generation prompt received.
C10_SummarySchemaIsSqlSchema ==
    (pc = "summarize" \/ "llm_summarize" \in Ops) => summary_schema = sql_schema

\* describe_and_save_all calls made by generate_response in the current turn
PipelineDescribeCalls ==
    Cardinality({i \in DOMAIN calls : calls[i] = "sql.describe_and_save_all"})

\* C11: a pipeline invocation that has reached the summarisation stage has
\* fetched the schema description through describe_and_save_all exactly
\* twice, once for SQL generation and once for summarisation.
C11_PipelineFetchesDescriptionTwice ==
    (pc = "summarize" \/ "llm_summarize" \in Ops) => PipelineDescribeCalls = 2

\* position of an operation in the calls of the current turn
Pos(op) == CHOOSE i \in DOMAIN calls : calls[i] = op

\* C12: in a pipeline invocation db.run is called at most once, only after
\* SQL generation returned and with exactly the generated SQL text; the
\* summarisation LLM is called only after db.run returned, with that SQL text
\* and that result in its prompt; after a raise of generation or execution
\* no later stage is invoked; a pipeline that answers ran the three stages in
\* the order generate, execute, summarise.
C12_StagesRunInOrder ==
    /\ NoRetry
    /\ "db.run" \in Ops =>
          /\ "llm_sql" \in Ops /\ Pos("llm_sql") < Pos("db.run")
          /\ raised # "llm_sql"
          /\ query \in SqlOutputs
          /\ run_query = query
    /\ (pc = "summarize" \/ "llm_summarize" \in Ops) =>
          /\ "db.run" \in Ops /\ raised # "db.run"
          /\ summary_query = query /\ run_query = query
          /\ summary_response = sql_result /\ sql_result \in SqlResults
    /\ "llm_summarize" \in Ops => Pos("db.run") < Pos("llm_summarize")
    /\ raised = "llm_sql" => ("db.run" \notin Ops /\ "llm_summarize" \notin Ops)
    /\ raised = "db.run" => "llm_summarize" \notin Ops
    /\ ("generate_response" \in Ops /\ pc = "idle" /\ raised = "none") =>
          /\ Len(calls) >= 3
          /\ SubSeq(calls, Len(calls) - 2, Len(calls))
                = <<"llm_sql", "db.run", "llm_summarize">>
          /\ Last(chat_history) = AIMessage(response)

\* the pipeline answered after running the generated SQL
C12_Witness ==
    /\ "llm_summarize" \in Ops /\ raised = "none" /\ pc = "idle"
    /\ run_query = <<"SELECT 1">>
    /\ summary_response = <<"rows">>
    /\ response \in SummaryOutputs

\* position in the log of the Human message of the current turn
HumanIndex ==
    IF pc = "idle" /\ outcome = "answered" THEN Len(chat_history) - 1
                                           ELSE Len(chat_history)

\* C13: the history handed to generate_response has exactly two messages:
\* the Human message of the current turn, preceded by the log entry that
\* stands immediately before it; these were the last two entries of the log
\* when the pipeline was invoked.
C13_HistoryIsLastTwoEntries ==
    "generate_response" \in Ops =>
        /\ Len(history_arg) = 2
        /\ HumanIndex >= 2
        /\ history_arg[2] = HumanMessage(user_query)
        /\ history_arg[2] = chat_history[HumanIndex]
        /\ history_arg[1] = chat_history[HumanIndex - 1]

\* the pipeline ran in a second turn whose predecessor got no AI message
C13_Witness ==
    /\ "generate_response" \in Ops
    /\ turns = 2
    /\ history_arg[1].role = "Human"
    /\ chat_history[2].role = "Human"

IsPrefix(a, b) == Len(a) <= Len(b) /\ SubSeq(b, 1, Len(a)) = a

\* C14: every step leaves the log as it was or appends one message to it:
\* the old log is a prefix of the new one and the greeting stays first; a
\* step taken between turns that submits no message (a connect, successful
\* or failed) leaves the log unchanged.
C14_LogIsAppendOnly ==
    [][/\ IsPrefix(chat_history, chat_history')
       /\ Len(chat_history') <= Len(chat_history) + 1
       /\ chat_history'[1] = AIMessage(Greeting)
       /\ (pc = "idle" /\ turns' = turns) => chat_history' = chat_history]_vars

\* connects, the last one failed, after a turn had grown the log
C14_Witness ==
    /\ outcome = "no_db"
    /\ db \in Handles
    /\ connect_status = "error"
    /\ Len(chat_history) = 3

\* C15: a message submitted while the db handle is unset is appended to the
\* log as a Human message and the turn is over: no component is invoked, no
\* AI message and no response is produced, and the db handle, the
\* description store and the describers' counters are as before.
C15_TurnWithoutDbOnlyAppendsHuman ==
    [][(pc = "idle" /\ turns' = turns + 1 /\ db = None) =>
          /\ user_query' \in Queries
          /\ chat_history' = Append(chat_history, HumanMessage(user_query'))
          /\ pc' = "idle" /\ outcome' = "no_db"
          /\ calls' = <<>> /\ raised' = "none"
          /\ response' = <<>>
          /\ db' = None /\ store' = store
          /\ UNCHANGED cacheGhosts]_vars

\* two messages were submitted to a session whose only connect had failed
C15_Witness ==
    /\ outcome = "no_db"
    /\ db = None
    /\ connect_status = "error"
    /\ turns = 2
    /\ Last(chat_history).role = "Human"

\* C16: a generate_description that raises leaves the (empty) store as it
\* was and no save is made, and the error leaves describe_and_save_all; a
\* describe_and_save_all that loads an empty store goes on to generation,
\* also after earlier failures; the store changes only in the save step that
\* follows a returned generation, by that description and the separator.
C16_FailedGenerationWritesNothing ==
    [][/\ (pc = "desc_generate" /\ pc' = "idle") =>
             /\ store = <<>> /\ store' = store
             /\ n_save' = n_save
             /\ raised' = GenerateOp
             /\ Last(calls') = GenerateOp
             /\ caller = "app" => (outcome' = "uncaught" /\ chat_history' = chat_history)
       /\ (pc = "desc_load" /\ store = <<>>) => pc' = "desc_generate"
       /\ store' # store =>
             /\ pc = "desc_save"
             /\ Last(calls) = GenerateOp /\ raised = "none"
             /\ store' = store \o description \o Separator]_vars

\* a generation failed in one turn, the next turn generated and saved
C16_Witness ==
    /\ n_generate = 2
    /\ n_save = 1
    /\ turns = 2
    /\ store # <<>>

(* ------------- concurrent sessions of one deployment ------------------- *)
(* Streamlit runs the script of each browser session in a thread of its    *)
(* own, all in one process and one working directory, so the turns of two  *)
(* sessions can be inside describe_and_save_all (line 391) at once, on the *)
(* same schema_descriptions.txt.  In ConcSpec the locals of                *)
(* describe_and_save_all are per session: pc, database_schema,             *)
(* existing_descriptions, description, raised and descriptions (the value  *)
(* returned to line 391) are functions of the session.  The append of      *)
(* save_descriptions is taken as one step.                                 *)
Sessions == {1, 2}

\* state that the describe_and_save_all calls do not touch
concFrame == <<chat_history, db, user_query, classifier_text, classification,
               schema_info, verifier_text, relevance, response, pipeLocals,
               caller, calls, turns, outcome, connect_status, later_inputs,
               later_returns>>

\* both sessions enter describe_and_save_all, the store is empty
ConcInit ==
    /\ chat_history = <<AIMessage(Greeting)>>
    /\ db = 1
    /\ store = <<>>
    /\ pc = [s \in Sessions |-> "desc_load"]
    /\ database_schema \in [Sessions -> RawSchemas]
    /\ existing_descriptions = [s \in Sessions |-> <<>>]
    /\ description = [s \in Sessions |-> <<>>]
    /\ descriptions = [s \in Sessions |-> <<>>]
    /\ raised = [s \in Sessions |-> "none"]
    /\ user_query = <<>> /\ classifier_text = <<>> /\ classification = <<>>
    /\ schema_info = <<>>
    /\ verifier_text = <<>> /\ relevance = <<>> /\ response = <<>>
    /\ history_arg = <<>> /\ sql_schema = <<>> /\ query = <<>>
    /\ sql_result = <<>> /\ summary_schema = <<>>
    /\ run_query = <<>> /\ summary_query = <<>> /\ summary_response = <<>>
    /\ caller = "app"
    /\ calls = <<>> /\ turns = 0 /\ outcome = "none"
    /\ connect_status = "success"
    /\ n_generate = 0 /\ n_stale_generate = 0 /\ n_save = 0
    /\ later_inputs = {} /\ later_returns = {}

\* lines 94-97 in session s
ConcLoad(s) ==
    /\ pc[s] = "desc_load"
    /\ existing_descriptions' =
           [existing_descriptions EXCEPT ![s] = LoadExistingDescriptions(store)]
    /\ IF HasContent(existing_descriptions'[s])
       THEN /\ descriptions' = [descriptions EXCEPT ![s] = existing_descriptions'[s]]
            /\ pc' = [pc EXCEPT ![s] = "returned"]
       ELSE /\ pc' = [pc EXCEPT ![s] = "desc_generate"]
            /\ UNCHANGED descriptions
    /\ UNCHANGED <<concFrame, store, database_schema, description, raised,
                   n_generate, n_stale_generate, n_save>>

\* line 101 in session s: generate_description returns
ConcGenerateReturn(s, t) ==
    /\ pc[s] = "desc_generate"
    /\ description' = [description EXCEPT ![s] = GenerateDescription(t)]
    /\ n_generate' = n_generate + 1
    /\ n_stale_generate' = IF store # <<>> THEN n_stale_generate + 1
                                          ELSE n_stale_generate
    /\ pc' = [pc EXCEPT ![s] = "desc_save"]
    /\ UNCHANGED <<concFrame, store, database_schema, existing_descriptions,
                   descriptions, raised, n_save>>

\* line 101 in session s: the LLM call raises and ends the turn of s
ConcGenerateRaise(s) ==
    /\ pc[s] = "desc_generate"
    /\ n_generate' = n_generate + 1
    /\ n_stale_generate' = IF store # <<>> THEN n_stale_generate + 1
                                          ELSE n_stale_generate
    /\ raised' = [raised EXCEPT ![s] = "app.generate_description"]
    /\ pc' = [pc EXCEPT ![s] = "raised"]
    /\ UNCHANGED <<concFrame, store, database_schema, existing_descriptions,
                   description, descriptions, n_save>>

\* lines 104-105 in session s
ConcSave(s) ==
    /\ pc[s] = "desc_save"
    /\ store' = SaveDescriptions(store, description[s])
    /\ n_save' = n_save + 1
    /\ descriptions' = [descriptions EXCEPT ![s] = description[s]]
    /\ pc' = [pc EXCEPT ![s] = "returned"]
    /\ UNCHANGED <<concFrame, database_schema, existing_descriptions,
                   description, raised, n_generate, n_stale_generate>>

ConcNext ==
    \/ \E s \in Sessions : ConcLoad(s)
    \/ \E s \in Sessions : \E t \in DescriberOutputs : ConcGenerateReturn(s, t)
    \/ \E s \in Sessions : ConcGenerateRaise(s)
    \/ \E s \in Sessions : ConcSave(s)

ConcSpec == ConcInit /\ [][ConcNext]_vars

\* the same description, with or without the separator line of the store
SameDescription(a, b) ==
    a = b \/ a = b \o Separator \/ b = a \o Separator

\* C17: when the describe_and_save_all calls of two sessions, started on the
\* empty store, have both returned, whatever the interleaving of their
\* steps, one description has been saved, the store holds that one
\* description, and both calls returned it.
C17_ConcurrentDescribeKeepsOneDescription ==
    (\A s \in Sessions : pc[s] = "returned") =>
        /\ n_save = 1
        /\ \E t \in DescriberOutputs : store = Strip(t) \o Separator
        /\ \A s1, s2 \in Sessions : SameDescription(descriptions[s1], descriptions[s2])

====
